---- MODULE Spec2Model ----
(***************************************************************************)
(* State-machine model of src/src/vtai/app.py: one chat session (history,  *)
(* settings, live "speak" actions) and the handlers that serve its events. *)
(* Every handler is cut at its await points; the code between two awaits   *)
(* is one atomic step.  Python values are modelled as strings ("True",     *)
(* "False", "None", model names); text is a sequence of words.             *)
(* What can raise: every call of a remote service (classifier, completion, *)
(* image generation, vision, transcription, speech synthesis), the read of *)
(* a stream part, and the emission of a handler's result to the output     *)
(* sink (lines 135, 270, 322, 457, 508).  The other sends (placeholders,   *)
(* progress notices, the failure message) are taken to succeed.            *)
(***************************************************************************)
EXTENDS Naturals, Sequences, FiniteSets, Bags

\* ---------------------------------------------------------------- bounds
\* work accepted per session, in handler invocations: a conversation (the
\* dispatcher of a text message or of a text attachment, with the handler it
\* routes to) counts two, every other attachment and a speak action one
MaxWork == 3
\* direct calls of the history append in the specification of the append
MaxProbes == 3
\* work accepted per session in the specification of termination
MaxLiveWork == 2
\* work accepted per session when events are delivered concurrently
MaxConcWork == 2
\* work accepted when a message turn and speak actions interleave
MaxRaceWork == 3

\* ------------------------------------------------------------ value sets
Tasks == {"t1", "t2"}
MainTask == "t1"

PyBool == {"True", "False"}
ChatModels == {"gpt"}
VisionModels == {"vis"}
TtsModels == {"tts-1"}
TtsVoices == {"alloy"}

SettingsSpace ==
  [chat_model : ChatModels, vision_model : VisionModels, enable_tts : PyBool,
   tts_model : TtsModels, tts_voice : TtsVoices, dynamic_routing : PyBool,
   trim : PyBool]

NoSettings ==
  [chat_model |-> "None", vision_model |-> "None", enable_tts |-> "None",
   tts_model |-> "None", tts_voice |-> "None", dynamic_routing |-> "None",
   trim |-> "None"]

\* route names the classifier can return; "None" is "no route matched"
IMAGE_GENERATION == "image_generation"
VISION_IMAGE_PROCESSING == "vision_image_processing"
RouteNames == {IMAGE_GENERATION, VISION_IMAGE_PROCESSING, "casual", "None"}

\* text is a sequence of words; "u" stands for a word that is an image URL
UserTexts == {<<>>, <<"q">>, <<"q", "u">>}
\* the text typed along with attachments
Prompts == {<<>>, <<"q">>}
FileText == <<"f">>           \* decoded content of a text attachment
RevisedPrompts == {<<"r">>}
Descriptions == {<<"d">>}
Transcripts == {<<"t">>}
\* completion streams, as the deltas of their parts; "-" is a part whose
\* delta.content is None or ""
Streams == {<<"-">>, <<"a", "b">>}

\* message.elements, by the mime category of each file; <<>> is a message
\* without attachments
AttachmentLists ==
  {<<>>, <<"image">>, <<"text">>, <<"audio">>,
   <<"image", "audio">>, <<"audio", "image">>, <<"image", "image">>,
   <<"image", "text">>, <<"text", "image">>}

RECURSIVE FilesWork(_)
FilesWork(els) ==
  IF Len(els) = 0 THEN 0
  ELSE (IF Head(els) = "text" THEN 2 ELSE 1) + FilesWork(Tail(els))
MessageWork(els) == IF Len(els) = 0 THEN 2 ELSE FilesWork(els)

system_message == [role |-> "system", content |-> <<"sys">>]
greeting == <<"hello">>

\* ------------------------------------------------------------- variables
VARIABLES
  has_history,      \* "message_history" is set in the user session
  message_history,  \* the list object stored under "message_history"
  has_settings,     \* session.chat_settings is set (ChatSettings.send ran)
  chat_settings,    \* what cl.user_session.get("chat_settings") returns
  user_session,     \* the per-key entries written with cl.user_session.set
  actions,          \* bag of values of the speak actions shown to the user
  startpc,          \* position of start_chat
  tk,               \* per handler invocation: position, locals, observations
  nhandled,         \* work accepted so far
  probe,            \* arguments and result of a direct call of the append
  submitted         \* the mapping last handed over by the settings widget

vars == <<has_history, message_history, has_settings, chat_settings,
          user_session, actions, startpc, tk, nhandled, probe,
                 submitted>>

\* ---------------------------------------------------------- pure helpers
Truthy(v) == v \notin {"None", "False", ""}

\* __get_settings: None when chat_settings is unset, else settings[key]
GetSettingsPerKey(hs, cs, key) == user_session[key]
GetSettings(hs, cs, key) == IF ~hs THEN "None" ELSE cs[key]

\* whether cl.user_session.get("message_history") or [] yields the stored
\* list object itself (an alias) rather than a fresh empty list
ReadIsAlias(hh, h) == hh /\ Len(h) > 0
\* the value of cl.user_session.get("message_history") or []
ReadHistory(hh, h) == IF ReadIsAlias(hh, h) THEN h ELSE <<>>

\* __update_messages_history_with_context: the stored list after the call.
\* When nothing (or an empty list) is stored, the append goes to a fresh
\* list that is dropped, so the stored state does not change.
UpdateNoGuard(hh, h, context, role) ==
  IF ReadIsAlias(hh, h) THEN Append(h, [role |-> role, content |-> context]) ELSE h
UpdatePrepend(hh, h, context, role) ==
  IF role = "" \/ Len(context) = 0 THEN h
  ELSE IF ReadIsAlias(hh, h) THEN <<[role |-> role, content |-> context]>> \o h ELSE h
UpdateWritesBackStaleRead(hh, h, context, role) ==
  IF role = "" \/ Len(context) = 0 \/ ~ReadIsAlias(hh, h) THEN h
  ELSE LET running == {t \in Tasks : tk[t].pc # "idle"}
           base == IF running = {} THEN h
                   ELSE LET t == CHOOSE u \in running :
                                   \A v \in running :
                                     Len(tk[u].hist0) <= Len(tk[v].hist0)
                        IN SubSeq(h, 1, Len(tk[t].hist0))
       IN Append(base, [role |-> role, content |-> context])
UpdateSkipsDuplicate(hh, h, context, role) ==
  IF role = "" \/ Len(context) = 0 \/ ~ReadIsAlias(hh, h) THEN h
  ELSE IF \E i \in 1..Len(h) : h[i] = [role |-> role, content |-> context]
       THEN h
       ELSE Append(h, [role |-> role, content |-> context])
UpdateOverwritesLast(hh, h, context, role) ==
  IF role = "" \/ Len(context) = 0 \/ ~ReadIsAlias(hh, h) THEN h
  ELSE [h EXCEPT ![Len(h)] = [role |-> role, content |-> context]]
UpdateMessagesHistory(hh, h, context, role) ==
  IF role = "" \/ Len(context) = 0 THEN h
  ELSE IF ReadIsAlias(hh, h) THEN Append(h, [role |-> role, content |-> context]) ELSE h

UpdateUser(hh, h, context) == UpdateMessagesHistory(hh, h, context, "user")
UpdateAssistantDoubled(hh, h, context) ==
  UpdateMessagesHistory(hh, UpdateMessagesHistory(hh, h, context, "assistant"),
                        context, "assistant")
UpdateAssistant(hh, h, context) == UpdateMessagesHistory(hh, h, context, "assistant")

\* litellm.utils.trim_messages(messages, model): under the model's token
\* budget the list comes back as it is; over it, the system message is kept
\* first and the oldest of the other messages are dropped until the rest fits.
RECURSIVE Tokens(_)
Tokens(msgs) == IF Len(msgs) = 0 THEN 0 ELSE Len(Head(msgs).content) + Tokens(Tail(msgs))

TokenBudget(model) == 3

RECURSIVE FittingSuffix(_, _)
FittingSuffix(msgs, room) ==
  IF Len(msgs) = 0 \/ Tokens(msgs) <= room THEN msgs ELSE FittingSuffix(Tail(msgs), room)

IsSystem(m) == m.role = "system"
NotSystem(m) == m.role # "system"

TrimMessages(msgs, model) ==
  IF model \notin ChatModels \/ Tokens(msgs) < TokenBudget(model) THEN msgs
  ELSE LET sys == SelectSeq(msgs, IsSystem)
           rest == SelectSeq(msgs, NotSystem)
           room == IF TokenBudget(model) > Tokens(sys)
                   THEN TokenBudget(model) - Tokens(sys) ELSE 0
       IN sys \o FittingSuffix(rest, room)

\* url_extractor.extract_url(query): the URLs of the query, in order
IsUrl(w) == w = "u"
ExtractUrl(query) == SelectSeq(query, IsUrl)

\* __handle_dynamic_conversation_routing_chat, lines 349-386: the handler a
\* classified query is dispatched to
RouteTargetUnknownToImage(name, urls) ==
  IF name = VISION_IMAGE_PROCESSING
  THEN (IF Len(urls) > 0 THEN "vision" ELSE "chat")
  ELSE IF name = "casual" THEN "chat" ELSE "image_gen"
RouteTargetImageToChat(name, urls) ==
  IF name = VISION_IMAGE_PROCESSING /\ Len(urls) > 0 THEN "vision" ELSE "chat"
RouteTarget(name, urls) ==
  IF name = IMAGE_GENERATION THEN "image_gen"
  ELSE IF name = VISION_IMAGE_PROCESSING
       THEN (IF Len(urls) > 0 THEN "vision" ELSE "chat")
       ELSE "chat"

\* __handle_files_attachment, lines 294-305: the branch taken for one file
AttachmentImageToConversation(mime) ==
  IF mime \in {"image", "text"} THEN "conversation"
  ELSE IF mime = "audio" THEN "audio" ELSE "skip"
AttachmentHandler(mime) ==
  IF mime = "image" THEN "vision"
  ELSE IF mime = "text" THEN "conversation"
  ELSE IF mime = "audio" THEN "audio"
  ELSE "skip"

\* ------------------------------------------------- one handler invocation
\* pc and the locals of the running coroutine, then what the invocation has
\* done so far.  Over the whole turn: the history it started from, the
\* handlers entered, the services called, the exceptions raised and those
\* reported to the user, whether a text attachment was met, the image
\* attachments met and those handed to the Vision Handler directly, whether
\* a vision model was found unable to take images, the outputs sent.  Over
\* the handler running now (reset when the dispatcher enters the next one):
\* what was sent to the output sink, the services called, the completion
\* request issued, the stream received, and the Vision Handler's view.
NoRequest == [sent |-> FALSE, model |-> "None", messages |-> <<>>,
              trim |-> "None", stored |-> <<>>]

IdleTask ==
  [pc |-> "idle", content |-> <<>>, elements |-> <<>>,
   infiles |-> FALSE, alias |-> FALSE, messages |-> <<>>, model |-> "None",
   query |-> <<>>, msg |-> <<>>, stream |-> <<>>, attach |-> FALSE,
   is_local |-> FALSE, vision_model |-> "None", text |-> <<>>, exc |-> "",
   kind |-> "none", hist0 |-> <<>>, invoked |-> {}, svc |-> {},
   raised |-> {}, reported |-> {}, outcome |-> "none", had_text |-> FALSE,
   images |-> 0, vis_direct |-> 0, mismatch |-> FALSE, nout |-> 0,
   last |-> "", rclass |-> "", out |-> <<>>, hsvc |-> {}, req |-> NoRequest,
   stream0 |-> <<>>, v_unsupported |-> FALSE, v_hist |-> <<>>, v_out |-> 0]

Emit(r, type, data) ==
  [r EXCEPT !.out = Append(@, [type |-> type, data |-> data]), !.nout = @ + 1]
Called(r, svc) == [r EXCEPT !.svc = @ \cup {svc}, !.hsvc = @ \cup {svc}]
Enter(r, handler) == [r EXCEPT !.invoked = @ \cup {handler}, !.last = handler]
\* the dispatcher (on_message, the attachment loop, the action callback)
\* hands over to a handler: the per-handler observations start afresh
Dispatch(r, handler) ==
  [Enter(r, handler) EXCEPT
     !.out = <<>>, !.hsvc = {}, !.req = NoRequest, !.stream0 = <<>>,
     !.rclass = "", !.v_unsupported = FALSE, !.v_hist = <<>>, !.v_out = 0,
     !.msg = <<>>, !.stream = <<>>, !.attach = FALSE, !.text = <<>>,
     !.exc = "", !.query = <<>>]

\* the callback returns (outcome "ok") or an exception leaves it ("escaped")
EndTurn(r, outcome) == [r EXCEPT !.pc = "done", !.outcome = outcome]
\* a capability handler returns to its caller
Return(r) ==
  IF r.infiles THEN [r EXCEPT !.pc = "files_loop"] ELSE EndTurn(r, "ok")
\* an exception no handler catches leaves the callback
EscapeStuck(r, e) == [r EXCEPT !.pc = "stuck", !.exc = e, !.raised = @ \cup {e}]
Escape(r, e) == EndTurn([r EXCEPT !.exc = e, !.raised = @ \cup {e}], "escaped")
\* an exception raised inside a try block: control goes to the except clause
Catch(r, e) == [r EXCEPT !.pc = "exc", !.exc = e, !.raised = @ \cup {e}]

\* the list a handler holding `messages` sends: the stored list when the
\* local is an alias of it, else the local's own value
MessagesSnapshot(r, h) == IF r.alias THEN r.hist0 ELSE r.messages
MessagesOf(r, h) == IF r.alias THEN h ELSE r.messages

Running == {t \in Tasks : tk[t].pc # "idle"}
Started == startpc = "done"

NoProbe == [role |-> "", context |-> <<>>, before |-> <<>>, after |-> <<>>, n |-> 0]

\* ------------------------------------------------------------------ Init
Init ==
  /\ has_history = FALSE
  /\ message_history = <<>>
  /\ has_settings = FALSE
  /\ chat_settings = NoSettings
  /\ user_session = NoSettings
  /\ actions = EmptyBag
  /\ startpc = "new"
  /\ tk = [t \in Tasks |-> IdleTask]
  /\ nhandled = 0
  /\ probe = NoProbe
  /\ submitted = NoSettings

\* ------------------------------------------------------------ start_chat
\* lines 48-60 with __build_settings and __config_chat_session up to the
\* await of the greeting's send (line 169)
StartChat ==
  /\ startpc = "new"
  /\ \E defaults \in SettingsSpace :
       /\ has_settings' = TRUE
       /\ chat_settings' = defaults
       /\ user_session' = [user_session EXCEPT !.chat_model = defaults.chat_model]
       /\ submitted' = defaults
  /\ has_history' = TRUE
  /\ message_history' = <<system_message>>
  /\ startpc' = "greeting"
  /\ UNCHANGED <<actions, tk, nhandled, probe>>

\* line 170
StartChatGreeted ==
  /\ startpc = "greeting"
  /\ message_history' = UpdateAssistant(has_history, message_history, greeting)
  /\ startpc' = "done"
  /\ UNCHANGED <<has_history, has_settings, chat_settings, user_session,
                 actions, tk, nhandled, probe,
                 submitted>>

\* ------------------------------------------------------- update_settings
\* The framework stores the submitted mapping as the session's
\* chat_settings and then calls update_settings (lines 84-99), which copies
\* six of the seven keys into the user session.
UpdateSettings ==
  /\ \E s \in SettingsSpace :
       /\ has_settings' = TRUE
       /\ chat_settings' = s
       /\ user_session' =
            [user_session EXCEPT !.chat_model = s.chat_model,
                                 !.vision_model = s.vision_model,
                                 !.dynamic_routing = s.dynamic_routing,
                                 !.tts_model = s.tts_model,
                                 !.tts_voice = s.tts_voice,
                                 !.enable_tts = s.enable_tts]
       /\ submitted' = s
  /\ UNCHANGED <<has_history, message_history, actions, startpc, tk,
                 nhandled, probe>>

\* ------------------------------------------------------------ on_message
\* __handle_conversation, lines 536-538: the model is read and the empty
\* reply message is handed to the sink
EnterConversation(r) ==
  [Dispatch(r, "conversation") EXCEPT
     !.pc = "conv_send",
     !.model = GetSettings(has_settings, chat_settings, "chat_model")]

\* __handle_trigger_async_chat, line 110: the completion request is issued
\* with the caller's `messages`; h is the stored history at that moment
EnterChat(r, h) ==
  [Enter(r, "chat") EXCEPT
     !.pc = "chat_call",
     !.req = [sent |-> TRUE, model |-> r.model,
              messages |-> MessagesOf(r, h),
              trim |-> GetSettings(has_settings, chat_settings, "trim"),
              stored |-> h]]

\* __handle_vision, lines 398-418: the model is resolved and its capability
\* looked up; the notice or the "analyzing" message is handed to the sink
DEFAULT_VISION_MODEL == "vis-default"
VisionModelOf(is_local) ==
  IF is_local THEN DEFAULT_VISION_MODEL
  ELSE GetSettings(has_settings, chat_settings, "vision_model")

\* line 406: the branch taken on the answer of litellm.supports_vision
VisionBranchIgnoresAnswer(supports_vision) == "vision_wait"
VisionBranch(supports_vision) ==
  IF supports_vision = FALSE THEN "vision_notice" ELSE "vision_wait"

EnterVision(r, is_local, supports_vision) ==
  LET vm == VisionModelOf(is_local) IN
  [Enter(r, "vision") EXCEPT
     !.pc = VisionBranch(supports_vision),
     !.is_local = is_local,
     !.vision_model = vm,
     !.v_unsupported = ~supports_vision,
     !.mismatch = @ \/ ~supports_vision,
     !.v_hist = message_history,
     !.v_out = Len(r.out)]

\* lines 71-76, then either __handle_files_attachment up to its loop
\* (lines 283-290) or __handle_conversation up to its first await
OnMessageWithin(t, budget) ==
  /\ tk[t].pc = "idle"
  /\ \E c \in UserTexts, els \in AttachmentLists :
       /\ Len(els) > 0 => c \in Prompts
       /\ nhandled + MessageWork(els) <= budget
       /\ nhandled' = nhandled + MessageWork(els)
       /\ LET r == [IdleTask EXCEPT
                      !.kind = "message", !.content = c, !.elements = els,
                      !.alias = ReadIsAlias(has_history, message_history),
                      !.messages = <<>>,
                      !.hist0 = message_history]
          IN IF Len(els) > 0
             THEN /\ message_history' = UpdateUser(has_history, message_history, c)
                  /\ tk' = [tk EXCEPT ![t] =
                              [Enter(r, "files") EXCEPT
                                 !.pc = "files_loop", !.infiles = TRUE]]
             ELSE /\ message_history' = message_history
                  /\ tk' = [tk EXCEPT ![t] = EnterConversation(r)]
  /\ UNCHANGED <<has_history, has_settings, chat_settings, user_session,
                 actions, startpc, probe,
                 submitted>>

OnMessage(t) == OnMessageWithin(t, MaxWork)

\* __handle_files_attachment, lines 290-305: the next file, or the end.
\* `elements` holds the files the loop has still to visit.
FilesLoop(t) ==
  /\ tk[t].pc = "files_loop"
  /\ LET r == tk[t] IN
     IF Len(r.elements) = 0
     THEN tk' = [tk EXCEPT ![t] = EndTurn(r, "ok")]
     ELSE LET mime == Head(r.elements)
              h == AttachmentHandler(mime)
              r1 == [r EXCEPT !.elements = Tail(@),
                              !.had_text = @ \/ mime = "text",
                              !.images = IF mime = "image" THEN @ + 1 ELSE @]
          IN
          \E supports_vision \in BOOLEAN :
          tk' = [tk EXCEPT ![t] =
            CASE h = "vision" ->
                   EnterVision([Dispatch(r1, "vision") EXCEPT !.vis_direct = @ + 1],
                               TRUE, supports_vision)
              [] h = "conversation" ->
                   EnterConversation([r1 EXCEPT !.content = FileText])
              [] h = "audio" -> [Dispatch(r1, "audio") EXCEPT !.pc = "audio_call"]
              [] OTHER -> [r1 EXCEPT !.pc = "files_loop"]]
  /\ UNCHANGED <<has_history, message_history, has_settings, chat_settings,
                 user_session, actions, startpc, nhandled, probe,
                 submitted>>

\* __handle_conversation, lines 538-553: the reply message was sent; the
\* query is appended and the turn is routed
ConvSend(t) ==
  /\ tk[t].pc = "conv_send"
  /\ LET r == tk[t]
         h == UpdateUser(has_history, message_history, r.content)
         r1 == [Emit(r, "placeholder", <<>>) EXCEPT !.query = r.content]
     IN
     /\ message_history' = h
     /\ tk' = [tk EXCEPT ![t] =
          IF Truthy(GetSettings(has_settings, chat_settings, "dynamic_routing"))
          THEN [Enter(r1, "routing") EXCEPT !.pc = "route"]
          ELSE EnterChat(r1, h)]
  /\ UNCHANGED <<has_history, has_settings, chat_settings, user_session,
                 actions, startpc, nhandled, probe,
                 submitted>>

\* line 340: the local `messages` after the optional trimming pass
Trimmed(r, should_trim) ==
  IF Truthy(should_trim)
  THEN [r EXCEPT !.alias = FALSE,
                 !.messages = TrimMessages(MessagesOf(r, message_history), r.model)]
  ELSE r

\* __handle_dynamic_conversation_routing_chat, lines 335-386: the
\* classifier call is synchronous, so the whole function up to the await of
\* the chosen handler is one step
Route(t) ==
  /\ tk[t].pc = "route"
  /\ LET r == tk[t] IN
     \/ tk' = [tk EXCEPT ![t] =
                 Escape(Called(r, "router"), "router_error")]
     \/ \E name \in RouteNames, supports_vision \in BOOLEAN :
          LET urls == ExtractUrl(r.query)
              r1 == [Called(r, "router") EXCEPT
                       !.rclass = IF name = IMAGE_GENERATION THEN "image"
                                  ELSE IF name = VISION_IMAGE_PROCESSING /\ Len(urls) > 0
                                       THEN "vision_url"
                                  ELSE IF name = VISION_IMAGE_PROCESSING
                                       THEN "vision_no_url"
                                       ELSE "default"]
              r2 == Trimmed(r1, GetSettings(has_settings, chat_settings, "trim"))
              target == RouteTarget(name, urls)
          IN tk' = [tk EXCEPT ![t] =
               CASE target = "image_gen" ->
                      [Enter(r2, "image_gen") EXCEPT !.pc = "image_notice"]
                 [] target = "vision" -> EnterVision(r2, FALSE, supports_vision)
                 [] OTHER -> EnterChat(r2, message_history)]
  /\ UNCHANGED <<has_history, message_history, has_settings, chat_settings,
                 user_session, actions, startpc, nhandled, probe,
                 submitted>>

\* ------------------------------------------- __handle_trigger_async_chat
\* line 110 returns the stream, or raises
ChatCall(t) ==
  /\ tk[t].pc = "chat_call"
  /\ LET r == tk[t] IN
     \/ tk' = [tk EXCEPT ![t] = Catch(Called(r, "chat"), "chat_error")]
     \/ \E s \in Streams :
          tk' = [tk EXCEPT ![t] =
                   [Called(r, "chat") EXCEPT
                      !.pc = "chat_stream", !.stream = s, !.stream0 = s]]
  /\ UNCHANGED <<has_history, message_history, has_settings, chat_settings,
                 user_session, actions, startpc, nhandled, probe,
                 submitted>>

\* lines 118-120: the read of the next part raises, or the part arrives and
\* its token, when it has one, is streamed to the sink
ChatPart(t) ==
  /\ tk[t].pc = "chat_stream"
  /\ Len(tk[t].stream) > 0
  /\ LET r == tk[t]
         d == Head(r.stream)
     IN
     \/ tk' = [tk EXCEPT ![t] = Catch(r, "chat_error")]
     \/ tk' = [tk EXCEPT ![t] =
                 IF d = "-" THEN [r EXCEPT !.stream = Tail(@)]
                 ELSE [Emit(r, "token", <<d>>) EXCEPT
                         !.stream = Tail(@), !.msg = Append(@, d)]]
  /\ UNCHANGED <<has_history, message_history, has_settings, chat_settings,
                 user_session, actions, startpc, nhandled, probe,
                 submitted>>

\* lines 122-135: the stream is exhausted; the assembled content is
\* appended, the speak action prepared, the message update awaited
ChatStreamEnd(t) ==
  /\ tk[t].pc = "chat_stream"
  /\ Len(tk[t].stream) = 0
  /\ message_history' = UpdateAssistant(has_history, message_history, tk[t].msg)
  /\ tk' = [tk EXCEPT ![t] =
              [@ EXCEPT !.pc = "chat_update",
                        !.text = tk[t].msg,
                        !.attach = Truthy(GetSettings(has_settings, chat_settings,
                                                      "enable_tts"))]]
  /\ UNCHANGED <<has_history, has_settings, chat_settings, user_session,
                 actions, startpc, nhandled, probe,
                 submitted>>

\* line 135 completes or raises
ChatUpdate(t) ==
  /\ tk[t].pc = "chat_update"
  /\ LET r == tk[t] IN
     \/ /\ tk' = [tk EXCEPT ![t] = Catch(r, "sink_error")]
        /\ UNCHANGED actions
     \/ /\ tk' = [tk EXCEPT ![t] = Return(Emit(r, "update", r.msg))]
        /\ actions' = IF r.attach THEN actions (+) SetToBag({r.text}) ELSE actions
  /\ UNCHANGED <<has_history, message_history, has_settings, chat_settings,
                 user_session, startpc, nhandled, probe,
                 submitted>>

\* lines 137-152, __handle_exception_error: the failure message is sent and
\* the handler returns normally
HandleException(t) ==
  /\ tk[t].pc = "exc"
  /\ LET r == tk[t] IN
     tk' = [tk EXCEPT ![t] = Return([Emit(r, "failure", <<r.exc>>) EXCEPT
                                 !.reported = @ \cup {r.exc}])]
  /\ UNCHANGED <<has_history, message_history, has_settings, chat_settings,
                 user_session, actions, startpc, nhandled, probe,
                 submitted>>

\* -------------------------------------- __handle_trigger_async_image_gen
\* line 241 (outside the try block), then the request of line 244 is issued
ImageNotice(t) ==
  /\ tk[t].pc = "image_notice"
  /\ LET r == tk[t] IN
     tk' = [tk EXCEPT ![t] = [Emit(r, "image_wait", <<>>) EXCEPT !.pc = "image_call"]]
  /\ UNCHANGED <<has_history, message_history, has_settings, chat_settings,
                 user_session, actions, startpc, nhandled, probe,
                 submitted>>

\* lines 244-270: the service answers (or raises, or answers without the
\* expected fields); the revised prompt is appended before the result is sent
ImageCall(t) ==
  /\ tk[t].pc = "image_call"
  /\ LET r == tk[t] IN
     \/ /\ tk' = [tk EXCEPT ![t] = Catch(Called(r, "image"), "image_error")]
        /\ UNCHANGED message_history
     \/ \E revised_prompt \in RevisedPrompts :
          /\ message_history' =
               UpdateAssistant(has_history, message_history, revised_prompt)
          /\ tk' = [tk EXCEPT ![t] =
                      [Called(r, "image") EXCEPT
                         !.pc = "image_send", !.text = revised_prompt]]
  /\ UNCHANGED <<has_history, has_settings, chat_settings, user_session,
                 actions, startpc, nhandled, probe,
                 submitted>>

\* line 270 completes, or raises into the except clause of line 272
ImageSend(t) ==
  /\ tk[t].pc = "image_send"
  /\ LET r == tk[t] IN
     \/ /\ tk' = [tk EXCEPT ![t] = Catch(r, "sink_error")]
        /\ UNCHANGED actions
     \/ /\ tk' = [tk EXCEPT ![t] = Return(Emit(r, "image_result", r.text))]
        /\ actions' = actions (+) SetToBag({r.text})
  /\ UNCHANGED <<has_history, message_history, has_settings, chat_settings,
                 user_session, startpc, nhandled, probe,
                 submitted>>

\* -------------------------------------------------------- __handle_vision
\* lines 406-411: the capability-mismatch notice is sent and the handler
\* returns
VisionNotice(t) ==
  /\ tk[t].pc = "vision_notice"
  /\ LET r == tk[t] IN
     tk' = [tk EXCEPT ![t] = Return(Emit(r, "mismatch", <<r.vision_model>>))]
  /\ UNCHANGED <<has_history, message_history, has_settings, chat_settings,
                 user_session, actions, startpc, nhandled, probe,
                 submitted>>

\* line 418, then the request of line 419 is issued; no try block
VisionWait(t) ==
  /\ tk[t].pc = "vision_wait"
  /\ LET r == tk[t] IN
     tk' = [tk EXCEPT ![t] = [Emit(r, "vision_wait", <<>>) EXCEPT !.pc = "vision_call"]]
  /\ UNCHANGED <<has_history, message_history, has_settings, chat_settings,
                 user_session, actions, startpc, nhandled, probe,
                 submitted>>

\* lines 419-457: the description is appended before the result is sent
VisionCall(t) ==
  /\ tk[t].pc = "vision_call"
  /\ LET r == tk[t] IN
     \/ /\ tk' = [tk EXCEPT ![t] = Escape(Called(r, "vision"), "vision_error")]
        /\ UNCHANGED message_history
     \/ \E description \in Descriptions :
          /\ message_history' =
               UpdateAssistant(has_history, message_history, description)
          /\ tk' = [tk EXCEPT ![t] =
                      [Called(r, "vision") EXCEPT
                         !.pc = "vision_result", !.text = description]]
  /\ UNCHANGED <<has_history, has_settings, chat_settings, user_session,
                 actions, startpc, nhandled, probe,
                 submitted>>

\* line 457
VisionResult(t) ==
  /\ tk[t].pc = "vision_result"
  /\ LET r == tk[t] IN
     \/ /\ tk' = [tk EXCEPT ![t] = Escape(r, "sink_error")]
        /\ UNCHANGED actions
     \/ /\ tk' = [tk EXCEPT ![t] = Return(Emit(r, "vision_result", r.text))]
        /\ actions' = actions (+) SetToBag({r.text})
  /\ UNCHANGED <<has_history, message_history, has_settings, chat_settings,
                 user_session, startpc, nhandled, probe,
                 submitted>>

\* ----------------------------------------------- __handle_audio_transcribe
\* lines 310-322: the transcription arrives and the transcript is sent
AudioCall(t) ==
  /\ tk[t].pc = "audio_call"
  /\ LET r == tk[t] IN
     \/ tk' = [tk EXCEPT ![t] =
                 Escape(Called(r, "transcribe"), "transcribe_error")]
     \/ \E text \in Transcripts :
          tk' = [tk EXCEPT ![t] =
                   [Called(r, "transcribe") EXCEPT
                      !.pc = "audio_send", !.text = text]]
  /\ UNCHANGED <<has_history, message_history, has_settings, chat_settings,
                 user_session, actions, startpc, nhandled, probe,
                 submitted>>

\* lines 322-325: the send completes and the transcript is appended
AudioSend(t) ==
  /\ tk[t].pc = "audio_send"
  /\ LET r == tk[t] IN
     \/ /\ tk' = [tk EXCEPT ![t] = Escape(r, "sink_error")]
        /\ UNCHANGED message_history
     \/ /\ tk' = [tk EXCEPT ![t] = Return(Emit(r, "transcript", r.text))]
        /\ message_history' = UpdateAssistant(has_history, message_history, r.text)
  /\ UNCHANGED <<has_history, has_settings, chat_settings, user_session,
                 actions, startpc, nhandled, probe,
                 submitted>>

\* ------------------------------------ on_speak_chat_response and the TTS
\* line 476 is awaited with the value of one of the actions on screen
OnSpeakWithin(t, budget) ==
  /\ tk[t].pc = "idle"
  /\ nhandled < budget
  /\ nhandled' = nhandled + 1
  /\ \E value \in BagToSet(actions) :
       tk' = [tk EXCEPT ![t] =
                [Enter(IdleTask, "tts") EXCEPT
                   !.kind = "speak", !.pc = "speak_remove", !.text = value,
                   !.hist0 = message_history]]
  /\ UNCHANGED <<has_history, message_history, has_settings, chat_settings,
                 user_session, actions, startpc, probe,
                 submitted>>

OnSpeak(t) == OnSpeakWithin(t, MaxWork)

\* __handle_tts_response, lines 485-490: whether the synthesis is requested
TtsIgnoresSetting(enable_tts_response, context) == Len(context) # 0
TtsProceeds(enable_tts_response, context) ==
  enable_tts_response # "False" /\ Len(context) # 0

\* lines 476-501: the action is removed; the synthesis call and the write of
\* the audio file are synchronous, so they belong to this step
SpeakRemove(t) ==
  /\ tk[t].pc = "speak_remove"
  /\ LET r == tk[t] IN
     /\ actions' = actions (-) SetToBag({r.text})
     /\ IF ~TtsProceeds(GetSettings(has_settings, chat_settings, "enable_tts"),
                           r.text)
        THEN tk' = [tk EXCEPT ![t] = EndTurn(r, "ok")]
        ELSE \/ tk' = [tk EXCEPT ![t] =
                         Escape(Called(r, "tts"), "tts_error")]
             \/ tk' = [tk EXCEPT ![t] =
                         [Called(r, "tts") EXCEPT !.pc = "tts_send"]]
  /\ UNCHANGED <<has_history, message_history, has_settings, chat_settings,
                 user_session, startpc, nhandled, probe,
                 submitted>>

\* lines 501-510: the audio message is sent, then the text is appended
TtsSend(t) ==
  /\ tk[t].pc = "tts_send"
  /\ LET r == tk[t] IN
     \/ /\ tk' = [tk EXCEPT ![t] = Escape(r, "sink_error")]
        /\ UNCHANGED message_history
     \/ /\ tk' = [tk EXCEPT ![t] = EndTurn(Emit(r, "tts_audio", r.text), "ok")]
        /\ message_history' = UpdateAssistant(has_history, message_history, r.text)
  /\ UNCHANGED <<has_history, has_settings, chat_settings, user_session,
                 actions, startpc, nhandled, probe,
                 submitted>>

\* the framework is done with the callback: its frame is gone
Finish(t) ==
  /\ tk[t].pc = "done"
  /\ tk' = [tk EXCEPT ![t] = IdleTask]
  /\ UNCHANGED <<has_history, message_history, has_settings, chat_settings,
                 user_session, actions, startpc, nhandled, probe,
                 submitted>>

\* ------------------------------------------------------- specifications
Step(t) ==
  \/ FilesLoop(t) \/ ConvSend(t) \/ Route(t)
  \/ ChatCall(t) \/ ChatPart(t) \/ ChatStreamEnd(t) \/ ChatUpdate(t)
  \/ HandleException(t)
  \/ ImageNotice(t) \/ ImageCall(t) \/ ImageSend(t)
  \/ VisionNotice(t) \/ VisionWait(t) \/ VisionCall(t) \/ VisionResult(t)
  \/ AudioCall(t) \/ AudioSend(t)
  \/ SpeakRemove(t) \/ TtsSend(t)
  \/ Finish(t)

\* One session whose events arrive one at a time: the next event is taken
\* when the callback of the previous one has returned.
Next ==
  \/ StartChat
  \/ StartChatGreeted
  \/ (Started /\ Running = {} /\ UpdateSettings)
  \/ (Started /\ Running = {} /\ OnMessage(MainTask))
  \/ (Started /\ Running = {} /\ OnSpeak(MainTask))
  \/ Step(MainTask)

Spec == Init /\ [][Next]_vars

\* The history append on its own: it is called with every role and content,
\* the empty ones included, on an unset history, on the history start_chat
\* leaves at its await, and on the history of a started session.
ProbeRoles == {"", "user", "assistant"}
ProbeContexts == {<<>>, <<"q">>, <<"a", "b">>}

InitAppend ==
  /\ has_history \in BOOLEAN
  /\ message_history \in
       IF has_history
       THEN {<<system_message>>,
             <<system_message, [role |-> "assistant", content |-> greeting]>>}
       ELSE {<<>>}
  /\ has_settings = FALSE
  /\ chat_settings = NoSettings
  /\ user_session = NoSettings
  /\ actions = EmptyBag
  /\ startpc = "new"
  /\ tk = [t \in Tasks |-> IdleTask]
  /\ nhandled = 0
  /\ probe = NoProbe
  /\ submitted = NoSettings

AppendCall ==
  /\ probe.n < MaxProbes
  /\ \E role \in ProbeRoles, context \in ProbeContexts :
       LET after == UpdateMessagesHistory(has_history, message_history, context, role)
       IN /\ message_history' = after
          /\ probe' = [role |-> role, context |-> context,
                       before |-> message_history, after |-> after,
                       n |-> probe.n + 1]
  /\ UNCHANGED <<has_history, has_settings, chat_settings, user_session,
                 actions, startpc, tk, nhandled,
                 submitted>>

SpecAppend == InitAppend /\ [][AppendCall]_vars

\* ----------------------------------------------------------------- claims
\* what a turn has added to the stored history, and its assistant entries
IsAssistant(m) == m.role = "assistant"
Added(r) ==
  IF Len(message_history) >= Len(r.hist0)
  THEN SubSeq(message_history, Len(r.hist0) + 1, Len(message_history))
  ELSE <<>>
AddedAssistant(r) == SelectSeq(Added(r), IsAssistant)

\* C1: once start_chat has set the history, in every state -- whatever
\* messages, attachment turns, speak actions, settings updates and trimming
\* passes have run -- the stored history is non-empty and its first entry is
\* the seed system message.
C1_SeedStaysFirst ==
  startpc # "new" =>
    /\ has_history
    /\ Len(message_history) > 0
    /\ message_history[1] = system_message

\* a turn whose request was condensed by the trimming pass has ended, and
\* the turn has appended to the history
C1_Witness ==
  \E t \in Tasks :
    /\ tk[t].pc = "done"
    /\ tk[t].req.sent
    /\ Len(tk[t].req.messages) < Len(tk[t].req.stored)
    /\ Len(Added(tk[t])) >= 2

\* C2: a call of the append with an empty role or an empty content leaves
\* the stored history exactly as it was, however often it is repeated.
C2_EmptyAppendIsNoOp ==
  (probe.n > 0 /\ (probe.role = "" \/ Len(probe.context) = 0)) =>
    /\ probe.after = probe.before
    /\ message_history = probe.before

\* a no-op call that follows calls that did append
C2_Witness ==
  /\ probe.n >= 2
  /\ probe.role = ""
  /\ Len(probe.context) > 0
  /\ has_history
  /\ Len(message_history) >= 3

\* C3: in a text-only turn whose query the classifier routes to
\* IMAGE_GENERATION the Image Generation Handler is entered and the Chat
\* Completion Handler never is; once the image service has returned its
\* revised prompt, the turn ends having added exactly one assistant entry,
\* whose content is that revised prompt.
C3_ImageRoute ==
  \A t \in Tasks :
    (tk[t].kind = "message" /\ ~tk[t].infiles /\ tk[t].rclass = "image") =>
      /\ "image_gen" \in tk[t].invoked
      /\ "chat" \notin tk[t].invoked
      /\ ~tk[t].req.sent
      /\ (tk[t].pc = "done" /\ "image" \in tk[t].svc /\ "image_error" \notin tk[t].raised)
           => /\ tk[t].text \in RevisedPrompts
              /\ AddedAssistant(tk[t]) =
                   <<[role |-> "assistant", content |-> tk[t].text]>>

C3_Witness ==
  \E t \in Tasks :
    /\ tk[t].kind = "message" /\ ~tk[t].infiles /\ tk[t].rclass = "image"
    /\ tk[t].pc = "done" /\ tk[t].outcome = "ok" /\ tk[t].raised = {}
    /\ Len(tk[t].query) > 0
    /\ Len(Added(tk[t])) = 2

\* the exceptions of the remote capability services
RemoteErrors ==
  {"chat_error", "image_error", "vision_error", "transcribe_error", "tts_error"}

\* C4: whenever the remote call of a capability handler has raised, the
\* turn ends with the exception caught and reported to the user in a
\* failure message; no such exception leaves the callback.
C4_FailuresReported ==
  \A t \in Tasks :
    (tk[t].pc = "done" /\ tk[t].raised \cap RemoteErrors # {}) =>
      /\ tk[t].outcome = "ok"
      /\ (tk[t].raised \cap RemoteErrors) \subseteq tk[t].reported

\* C5: a turn in which an exception was raised ends with no assistant entry
\* in the history that was not there when the turn began.
C5_FailedTurnAddsNoAssistant ==
  \A t \in Tasks :
    (tk[t].pc = "done" /\ tk[t].raised # {}) => AddedAssistant(tk[t]) = <<>>

\* what the handler running now has sent since the Vision Handler was entered
VisionOutputs(r) == SubSeq(r.out, r.v_out + 1, Len(r.out))

\* C6 (as stated): when a vision model resolved in the turn cannot take
\* images, the whole turn leaves the history as it found it, sends nothing
\* but the capability-mismatch notice and never calls the vision service.
C6_WholeTurnUntouched ==
  \A t \in Tasks :
    tk[t].mismatch =>
      /\ message_history = tk[t].hist0
      /\ tk[t].nout <= 1
      /\ \A i \in 1..Len(tk[t].out) : tk[t].out[i].type = "mismatch"
      /\ "vision" \notin tk[t].svc

\* C6 (amended): when the model resolved by an invocation of the Vision
\* Handler cannot take images, that invocation leaves the history as it
\* found it, sends the capability-mismatch notice and nothing else, and
\* does not call the vision service.
C6_VisionHandlerUntouched ==
  \A t \in Tasks :
    (tk[t].last = "vision" /\ tk[t].v_unsupported) =>
      /\ tk[t].pc \in {"vision_notice", "files_loop", "done"}
      /\ message_history = tk[t].v_hist
      /\ "vision" \notin tk[t].hsvc
      /\ VisionOutputs(tk[t]) =
           IF tk[t].pc = "vision_notice" THEN <<>>
           ELSE <<[type |-> "mismatch", data |-> <<tk[t].vision_model>>]>>

\* a router-triggered vision turn on a model that cannot take images has
\* ended: the dispatcher had appended the query before the handler ran
C6_Witness ==
  \E t \in Tasks :
    /\ tk[t].last = "vision" /\ tk[t].v_unsupported
    /\ tk[t].pc = "done" /\ ~tk[t].infiles
    /\ tk[t].rclass = "vision_url"
    /\ message_history # tk[t].hist0
    /\ tk[t].nout = 2

\* C7: a speak action invoked while the 'enable TTS response' setting is
\* false, or with an empty text, calls no speech synthesis, sends no audio
\* element and leaves the history as it was.
C7_SpeakDisabledIsNoOp ==
  \A t \in Tasks :
    (/\ tk[t].kind = "speak"
     /\ \/ GetSettings(has_settings, chat_settings, "enable_tts") = "False"
        \/ Len(tk[t].text) = 0) =>
      /\ "tts" \notin tk[t].svc
      /\ tk[t].out = <<>>
      /\ tk[t].pc \in {"speak_remove", "done"}
      /\ message_history = tk[t].hist0

\* a speak action with a non-empty text has been handled with the setting off
C7_Witness ==
  \E t \in Tasks :
    /\ tk[t].kind = "speak" /\ tk[t].pc = "done"
    /\ GetSettings(has_settings, chat_settings, "enable_tts") = "False"
    /\ Len(tk[t].text) > 0

\* a speak action with an empty text has been handled with the setting on
C7_WitnessEmptyText ==
  \E t \in Tasks :
    /\ tk[t].kind = "speak" /\ tk[t].pc = "done"
    /\ GetSettings(has_settings, chat_settings, "enable_tts") = "True"
    /\ Len(tk[t].text) = 0

\* C8: a routing outcome other than IMAGE_GENERATION and
\* VISION_IMAGE_PROCESSING with a URL hands the turn to the Chat Completion
\* Handler, which issues its request, and to no other handler; at the
\* hand-over nothing has been raised or reported as a failure.
C8_FallbackToChat ==
  \A t \in Tasks :
    tk[t].rclass \in {"default", "vision_no_url"} =>
      /\ tk[t].last = "chat"
      /\ tk[t].req.sent
      /\ tk[t].hsvc \subseteq {"router", "chat"}
      /\ ~tk[t].infiles => tk[t].invoked = {"conversation", "routing", "chat"}
      /\ \A i \in 1..Len(tk[t].out) :
           tk[t].out[i].type \in {"placeholder", "token", "update", "failure"}
      /\ tk[t].pc = "chat_call" =>
           /\ tk[t].exc = ""
           /\ \A i \in 1..Len(tk[t].out) : tk[t].out[i].type # "failure"
      /\ tk[t].reported \subseteq {"chat_error", "sink_error"}

\* a query classified VISION_IMAGE_PROCESSING that holds no URL was answered
\* by the Chat Completion Handler
C8_Witness ==
  \E t \in Tasks :
    /\ tk[t].rclass = "vision_no_url"
    /\ tk[t].pc = "done" /\ tk[t].outcome = "ok" /\ tk[t].raised = {}
    /\ ~tk[t].infiles
    /\ Len(AddedAssistant(tk[t])) = 1

\* C9 (as stated): in a turn that has met an image attachment every image
\* attachment met went to the Vision Handler directly and the classifier was
\* never called.
C9_ImageTurnNeverRouted ==
  \A t \in Tasks :
    (tk[t].kind = "message" /\ tk[t].images > 0) =>
      /\ tk[t].vis_direct = tk[t].images
      /\ "router" \notin tk[t].svc

\* C9 (amended): every image attachment the attachment loop meets goes to
\* the Vision Handler directly, for both values of the dynamic-routing
\* setting, and the classifier is not called in a turn whose attachments met
\* so far include an image and no text file.
C9_ImageGoesToVision ==
  \A t \in Tasks :
    tk[t].kind = "message" =>
      /\ tk[t].vis_direct = tk[t].images
      /\ (tk[t].images > 0 /\ ~tk[t].had_text) => "router" \notin tk[t].svc
      /\ (tk[t].infiles /\ tk[t].last = "vision") => tk[t].is_local

\* an image attachment was described with dynamic routing enabled
C9_Witness ==
  \E t \in Tasks :
    /\ tk[t].kind = "message" /\ tk[t].images > 0 /\ ~tk[t].had_text
    /\ tk[t].pc = "done" /\ tk[t].outcome = "ok"
    /\ "vision" \in tk[t].svc
    /\ GetSettings(has_settings, chat_settings, "dynamic_routing") = "True"

\* C10: with the 'trim messages' setting enabled every request of the Chat
\* Completion Handler carries the stored history condensed by the trimming
\* pass, and the condensed list begins with the system message.
C10_RequestsTrimmed ==
  \A t \in Tasks :
    (tk[t].req.sent /\ tk[t].req.trim = "True") =>
      /\ tk[t].req.messages = TrimMessages(tk[t].req.stored, tk[t].req.model)
      /\ Len(tk[t].req.messages) > 0
      /\ tk[t].req.messages[1] = system_message

\* ------------------------------------------------------------- liveness
\* The event loop resumes a suspended callback once what it awaits has
\* returned or raised: a step of the running callback that stays possible
\* is eventually taken.
NextLive ==
  \/ StartChat
  \/ StartChatGreeted
  \/ (Started /\ Running = {} /\ UpdateSettings)
  \/ (Started /\ Running = {} /\ OnMessageWithin(MainTask, MaxLiveWork))
  \/ (Started /\ Running = {} /\ OnSpeakWithin(MainTask, MaxLiveWork))
  \/ Step(MainTask)

FairSpec == Init /\ [][NextLive]_vars /\ WF_vars(Step(MainTask))

\* C11: every callback that has started -- a message turn or a speak
\* action, whether its remote calls return or raise -- eventually ends and
\* leaves the session idle, ready for the next event.
C11_TurnReturnsToIdle ==
  \A t \in Tasks : (tk[t].pc # "idle") ~> (tk[t].pc = "idle")

\* a turn that an exception left has been cleared and the session is idle
\* again with one more event handled after it
C11_Witness ==
  /\ Running = {}
  /\ Started
  /\ nhandled = MaxLiveWork
  /\ actions # EmptyBag
  /\ Len(message_history) > 2

\* ---------------------------------------------------------- concurrency
\* The callbacks are plain coroutines registered with the framework (lines
\* 63, 79, 471); app.py holds no lock, queue or busy flag.  Here an event is
\* delivered whenever it arrives, also while an earlier callback of the
\* session is suspended at an await: it runs in the first free task.
FreeTask == IF tk["t1"].pc = "idle" THEN "t1" ELSE "t2"

NextConc ==
  \/ StartChat
  \/ StartChatGreeted
  \/ (Started /\ UpdateSettings)
  \/ (Started /\ OnMessageWithin(FreeTask, MaxConcWork))
  \/ (Started /\ OnSpeakWithin(FreeTask, MaxConcWork))
  \/ \E t \in Tasks : Step(t)

ConcSpec == Init /\ [][NextConc]_vars

\* C12: at most one callback of the session is in progress at any time.
C12_OneTaskAtATime == Cardinality(Running) <= 1

IsPrefix(a, b) == Len(a) <= Len(b) /\ SubSeq(b, 1, Len(a)) = a

\* C13: every step of every callback leaves the entries already stored in
\* the history as they were, in role, content and position: the history
\* before a step is a prefix of the history after it.
C13_AppendOnly == [][IsPrefix(message_history, message_history')]_vars

\* a routed turn whose request went out trimmed has ended with the stored
\* history untouched by the trimming and one answer longer
C13_Witness ==
  \E t \in Tasks :
    /\ tk[t].pc = "done" /\ tk[t].outcome = "ok"
    /\ tk[t].req.sent /\ tk[t].req.trim = "True"
    /\ tk[t].req.messages # tk[t].req.stored
    /\ Len(message_history) = Len(tk[t].req.stored) + 1
    /\ IsPrefix(tk[t].req.stored, message_history)

\* the text of the tokens a handler has streamed to the sink, in the order
\* of their emission
RECURSIVE TokenText(_)
TokenText(out) ==
  IF Len(out) = 0 THEN <<>>
  ELSE (IF Head(out).type = "token" THEN Head(out).data ELSE <<>>)
       \o TokenText(Tail(out))
\* the deltas that carry content among the parts of a stream
IsContent(d) == d # "-"
\* the parts of its stream the Chat Completion Handler has read
PartsRead(r) == SubSeq(r.stream0, 1, Len(r.stream0) - Len(r.stream))
\* the Chat Completion Handler is, or was last, running and has read its
\* stream to the end
InChat(r) == r.last = "chat" /\ r.req.sent
StreamCompleted(r) ==
  /\ InChat(r)
  /\ r.pc \notin {"chat_call", "chat_stream"}
  /\ r.exc # "chat_error"
\* what the history has gained since the completion request was issued
SinceRequest(r) ==
  IF Len(message_history) >= Len(r.req.stored)
  THEN SubSeq(message_history, Len(r.req.stored) + 1, Len(message_history))
  ELSE <<>>

\* C14 (as stated): the tokens go to the sink in the order of the stream,
\* nothing is appended before the stream has completed, and when it has
\* completed the history has gained exactly one assistant entry, the
\* concatenation of the tokens emitted.
C14_OneEntryPerCompletedStream ==
  \A t \in Tasks :
    InChat(tk[t]) =>
      /\ TokenText(tk[t].out) = SelectSeq(PartsRead(tk[t]), IsContent)
      /\ tk[t].pc \in {"chat_call", "chat_stream"} =>
           message_history = tk[t].req.stored
      /\ StreamCompleted(tk[t]) =>
           SinceRequest(tk[t]) =
             <<[role |-> "assistant", content |-> TokenText(tk[t].out)]>>

\* C14 (amended): as above, but a stream that completes without having
\* carried any content leaves the history without a new entry.
C14_EntryIffTokens ==
  \A t \in Tasks :
    InChat(tk[t]) =>
      /\ TokenText(tk[t].out) = SelectSeq(PartsRead(tk[t]), IsContent)
      /\ tk[t].pc \in {"chat_call", "chat_stream"} =>
           message_history = tk[t].req.stored
      /\ StreamCompleted(tk[t]) =>
           SinceRequest(tk[t]) =
             IF TokenText(tk[t].out) = <<>> THEN <<>>
             ELSE <<[role |-> "assistant", content |-> TokenText(tk[t].out)]>>

\* a stream of two tokens was read to the end and its text stored
C14_Witness ==
  \E t \in Tasks :
    /\ StreamCompleted(tk[t]) /\ tk[t].pc = "done" /\ tk[t].outcome = "ok"
    /\ tk[t].stream0 = <<"a", "b">>
    /\ TokenText(tk[t].out) = <<"a", "b">>
    /\ tk[t].raised = {}

\* a stream without content was read to the end
C14_WitnessNoContent ==
  \E t \in Tasks :
    /\ StreamCompleted(tk[t]) /\ tk[t].pc = "done"
    /\ tk[t].stream0 = <<"-">>

\* how often an entry occurs in a history
Count(h, e) == Len(SelectSeq(h, LAMBDA m : m = e))
Spoken(r) == [role |-> "assistant", content |-> r.text]
\* a speak action on a non-empty text, with TTS enabled, whose synthesis
\* call has returned
Synthesized(r) ==
  /\ r.kind = "speak" /\ r.pc = "done"
  /\ Len(r.text) > 0
  /\ GetSettings(has_settings, chat_settings, "enable_tts") = "True"
  /\ "tts" \in r.svc /\ "tts_error" \notin r.raised

\* C15 (as stated): a speak action whose synthesis succeeded has added the
\* spoken text as one new assistant entry, beside the entry its producing
\* handler had appended.
C15_SynthesisAppends ==
  \A t \in Tasks :
    Synthesized(tk[t]) =>
      /\ Added(tk[t]) = <<Spoken(tk[t])>>
      /\ Count(message_history, Spoken(tk[t])) >= 2

\* C15 (amended): a speak action whose synthesis succeeded and whose audio
\* message was sent has added the spoken text as one new assistant entry;
\* the text was in the history already, so it is there once more than
\* before, at least twice.
C15_SpokenTextAppended ==
  \A t \in Tasks :
    (Synthesized(tk[t]) /\ tk[t].outcome = "ok") =>
      /\ Added(tk[t]) = <<Spoken(tk[t])>>
      /\ Count(tk[t].hist0, Spoken(tk[t])) >= 1
      /\ Count(message_history, Spoken(tk[t])) =
           Count(tk[t].hist0, Spoken(tk[t])) + 1

\* the answer of a chat completion was spoken: it is in the history twice
C15_Witness ==
  \E t \in Tasks :
    /\ Synthesized(tk[t]) /\ tk[t].outcome = "ok"
    /\ tk[t].text = <<"a", "b">>
    /\ Count(message_history, Spoken(tk[t])) = 2

\* C16: a classifier failure in a text-only routed turn is handled by the
\* dispatcher: the user gets the failure message, no capability handler is
\* entered, and the callback returns normally.
C16_RouterFailureReported ==
  \A t \in Tasks :
    ("router_error" \in tk[t].raised /\ tk[t].pc = "done" /\ ~tk[t].infiles) =>
      /\ "router_error" \in tk[t].reported
      /\ tk[t].outcome = "ok"
      /\ tk[t].invoked \subseteq {"conversation", "routing"}

\* C17: a read of a history that was never set yields the seed system
\* message alone, and an append made in that state shows in the next read.
C17_UninitializedReadIsSeeded ==
  ~has_history =>
    LET read == ReadHistory(has_history, message_history) IN
    /\ Len(read) > 0
    /\ read[1] = system_message
    /\ (probe.n > 0 /\ probe.role # "" /\ Len(probe.context) > 0) =>
         read[Len(read)] = [role |-> probe.role, content |-> probe.context]

SettingKeys ==
  {"chat_model", "vision_model", "enable_tts", "tts_model", "tts_voice",
   "dynamic_routing", "trim"}

\* C18: once the settings widget has handed over a mapping (the defaults at
\* session start, then every update), each settings read returns that
\* mapping's value for each of the seven keys, and only a settings event
\* changes what the reads return: no step of a message turn or of a speak
\* action does.
C18_SettingsFollowLastUpdate ==
  /\ [](has_settings =>
          \A k \in SettingKeys :
            GetSettings(has_settings, chat_settings, k) = submitted[k])
  /\ [][(\E k \in SettingKeys :
           GetSettings(has_settings', chat_settings', k)
             # GetSettings(has_settings, chat_settings, k))
          => (tk' = tk /\ submitted' # submitted)]_vars

\* the widget handed over a mapping with trimming on, update_settings copied
\* its six keys, and a turn has since run to its end
C18_Witness ==
  /\ user_session.vision_model # "None"
  /\ submitted.trim = "True"
  /\ user_session.trim = "None"
  /\ \E t \in Tasks : tk[t].pc = "done" /\ tk[t].outcome = "ok"

IsUser(m) == m.role = "user"
AddedUser(r) == SelectSeq(Added(r), IsUser)

\* C19: a message turn adds at most one user entry to the history,
\* whichever path handles it.
C19_OneUserEntryPerMessage ==
  \A t \in Tasks : tk[t].kind = "message" => Len(AddedUser(tk[t])) <= 1

\* C20: in a text-only turn with a non-empty query, the request the Chat
\* Completion Handler issues ends with the user entry of that query.
C20_RequestEndsWithQuery ==
  \A t \in Tasks :
    (/\ tk[t].kind = "message" /\ ~tk[t].infiles
     /\ tk[t].req.sent /\ Len(tk[t].query) > 0) =>
      /\ Len(tk[t].req.messages) > 0
      /\ tk[t].req.messages[Len(tk[t].req.messages)] =
           [role |-> "user", content |-> tk[t].query]
      /\ tk[t].req.trim # "True" => tk[t].req.messages = tk[t].req.stored

\* a routed request that the trimming pass had shortened still ended with
\* the query
C20_Witness ==
  \E t \in Tasks :
    /\ tk[t].kind = "message" /\ ~tk[t].infiles
    /\ tk[t].req.sent /\ Len(tk[t].query) > 0
    /\ tk[t].rclass = "default"
    /\ Len(tk[t].req.messages) < Len(tk[t].req.stored)

\* a request issued with dynamic routing off carried the whole history
C20_WitnessDirect ==
  \E t \in Tasks :
    /\ tk[t].kind = "message" /\ ~tk[t].infiles
    /\ tk[t].req.sent /\ Len(tk[t].query) > 0
    /\ tk[t].rclass = ""
    /\ tk[t].req.messages = tk[t].req.stored
    /\ Len(tk[t].req.stored) > 3

\* ------------------------------------------------- interleaved callbacks
\* A started session after one chat turn: the answer is in the history and
\* its speak action is on screen.  From there text messages and speak
\* actions are delivered whenever they arrive, so that a speak action can
\* run while a completion is streaming and the other way round.
AnsweredHistory ==
  <<system_message, [role |-> "assistant", content |-> greeting],
    [role |-> "user", content |-> <<"q">>],
    [role |-> "assistant", content |-> <<"a", "b">>]>>

InitRace ==
  /\ has_history = TRUE
  /\ message_history = AnsweredHistory
  /\ has_settings = TRUE
  /\ chat_settings \in {s \in SettingsSpace : s.enable_tts = "True"}
  /\ submitted = chat_settings
  /\ user_session = [NoSettings EXCEPT !.chat_model = chat_settings.chat_model]
  /\ actions = SetToBag({<<"a", "b">>})
  /\ startpc = "done"
  /\ tk = [t \in Tasks |-> IdleTask]
  /\ nhandled = 0
  /\ probe = NoProbe

StepRace(t) ==
  \/ ConvSend(t) \/ Route(t)
  \/ ChatCall(t) \/ ChatPart(t) \/ ChatStreamEnd(t) \/ ChatUpdate(t)
  \/ HandleException(t)
  \/ ImageNotice(t) \/ ImageCall(t) \/ ImageSend(t)
  \/ VisionNotice(t) \/ VisionWait(t) \/ VisionCall(t) \/ VisionResult(t)
  \/ SpeakRemove(t) \/ TtsSend(t)
  \/ Finish(t)

NextRace ==
  \/ (OnMessageWithin(FreeTask, MaxRaceWork) /\ ~tk'[FreeTask].infiles)
  \/ OnSpeakWithin(FreeTask, MaxRaceWork)
  \/ \E t \in Tasks : StepRace(t)

RaceSpec == InitRace /\ [][NextRace]_vars

\* the entry a step of invocation t appends, as its code says, between
\* the record before the step and the record after it; content <<>> when
\* the step appends nothing
StepAppends(before, after) ==
  CASE before.pc = "conv_send" ->
         [role |-> "user", content |-> before.content]
    [] before.pc = "chat_stream" /\ after.pc = "chat_update" ->
         [role |-> "assistant", content |-> before.msg]
    [] before.pc = "image_call" /\ after.pc = "image_send" ->
         [role |-> "assistant", content |-> after.text]
    [] before.pc = "vision_call" /\ after.pc = "vision_result" ->
         [role |-> "assistant", content |-> after.text]
    [] before.pc = "tts_send" /\ after.outcome = "ok" ->
         [role |-> "assistant", content |-> before.text]
    [] OTHER -> [role |-> "", content |-> <<>>]

\* C21: when callbacks of one session interleave at their awaits, every
\* step of either invocation leaves the history as it is or extends the
\* history of that moment -- the other invocation's entries included -- by
\* exactly the one entry the step appends; so no entry is lost, overwritten
\* or stored twice by one append.
C21_InterleavedAppendsKept ==
  [][\A t \in Tasks :
       tk'[t] # tk[t] =>
         LET e == StepAppends(tk[t], tk'[t]) IN
         message_history' =
           IF Len(e.content) > 0 THEN Append(message_history, e)
           ELSE message_history]_vars

\* a speak action ran while a completion was streaming: its entry stands
\* between the turn's user entry and the turn's answer
C21_Witness ==
  \E t \in Tasks, u \in Tasks :
    /\ tk[t].kind = "message" /\ tk[t].pc = "done" /\ tk[t].outcome = "ok"
    /\ tk[t].stream0 = <<"a", "b">> /\ tk[t].query = <<"q", "u">>
    /\ tk[u].kind = "speak" /\ tk[u].pc = "done" /\ tk[u].outcome = "ok"
    /\ message_history =
         AnsweredHistory \o
           <<[role |-> "user", content |-> <<"q", "u">>],
             [role |-> "assistant", content |-> tk[u].text],
             [role |-> "assistant", content |-> <<"a", "b">>]>>
    /\ Len(tk[u].hist0) = Len(message_history) - 2

====
